---- MODULE Spec2Model ----
(***************************************************************************)
(* Probe control commands (command group 0x0d) of wlink:                   *)
(* src/commands/control.rs.  One request/response round trip: a command    *)
(* value is encoded to its payload, the transport hands back raw response  *)
(* bytes, the command's Response type decodes them, and an attach result   *)
(* is rendered for logging.                                                *)
(***************************************************************************)
EXTENDS Integers, Sequences, FiniteSets, TLC

\* ------------------------------------------------------------------ bounds
\* Response bytes are drawn from 0..MaxByte and HighBytes.
MaxByte == 4
\* Response buffers are up to FullLen + MaxExtra bytes long.
MaxExtra == 1
\* Bytes with high hex digits.
HighBytes == {127, 255}
ByteSample == (0 .. MaxByte) \cup HighBytes
\* Bytes that follow the first FullLen bytes of a buffer.
TailSample == {0} \cup HighBytes
\* The longest response any decoder of this file reads (control.rs:78).
FullLen == 5
U8 == 0 .. 255

SeqsOf(S, n) == [1 .. n -> S]

\* Byte 1 is the leading byte of chip_id: below 128 the u32 stays inside
\* TLC's integers.
Representable(b) == Len(b) >= 2 => b[2] < 128

Inputs ==
    {b \in (UNION {SeqsOf(ByteSample, n) : n \in 0 .. FullLen})
            \cup {h \o t : h \in SeqsOf(ByteSample, FullLen),
                           t \in UNION {SeqsOf(TailSample, k) : k \in 1 .. MaxExtra}} :
        Representable(b)}

\* ------------------------------------------------- Result<T>, panic, Option
Ok(v) == [tag |-> "Ok", value |-> v]
Err(e) == [tag |-> "Err", error |-> e]
\* A Rust panic (index out of range, unwrap of an Err).
Panic == [tag |-> "Panic"]
\* No value yet.
Unset == [tag |-> "Unset"]
Some(v) == [tag |-> "Some", value |-> v]
None == [tag |-> "None"]

InvalidPayloadLength == [kind |-> "InvalidPayloadLength"]
UnknownDiscriminant(b) == [kind |-> "UnknownDiscriminant", byte |-> b]

\* ---------------------------------------------------- discriminant enums
\* crate::RiscvChip: a #[repr(u8)] enum; a value is its variant.
RiscvChipCodes ==
    [CH32V103 |-> 1, CH57X |-> 2, CH56X |-> 3, CH32V20X |-> 5,
     CH32V30X |-> 6, CH58X |-> 7, CH32V003 |-> 9]

RiscvChip == {[enum |-> "RiscvChip", variant |-> n] : n \in DOMAIN RiscvChipCodes}

\* `*c as u8`
RiscvChip_as_u8(c) == RiscvChipCodes[c.variant]

RiscvChip_try_from_u8(value) ==
    IF \E c \in RiscvChip : RiscvChip_as_u8(c) = value
    THEN Ok(CHOOSE c \in RiscvChip : RiscvChip_as_u8(c) = value)
    ELSE Err(UnknownDiscriminant(value))

\* `{:?}` of a chip family: the variant's identifier.
RiscvChip_debug(c) == c.variant

\* crate::WchLinkVariant
WchLinkVariantCodes ==
    [Ch549 |-> 1, ECh32v305 |-> 2, SCh32v203 |-> 3, BCh32v203 |-> 4]

WchLinkVariant ==
    {[enum |-> "WchLinkVariant", variant |-> n] : n \in DOMAIN WchLinkVariantCodes}

Ch549 == [enum |-> "WchLinkVariant", variant |-> "Ch549"]

WchLinkVariant_try_from_u8(value) ==
    IF \E v \in WchLinkVariant : WchLinkVariantCodes[v.variant] = value
    THEN Ok(CHOOSE v \in WchLinkVariant : WchLinkVariantCodes[v.variant] = value)
    ELSE Err(UnknownDiscriminant(value))

\* ------------------------------------------------------- slice primitives
\* bytes[i] on a slice: panics when i is out of range.
Index(bytes, i) == IF i < Len(bytes) THEN Ok(bytes[i + 1]) ELSE Panic

\* bytes[from..to] on a slice: panics when to exceeds the length.
Slice(bytes, from, to) ==
    IF from <= to /\ to <= Len(bytes)
    THEN Ok(SubSeq(bytes, from + 1, to))
    ELSE Panic

\* <[u8; 4]>::try_from(slice).unwrap(): panics unless the slice has 4 bytes.
TryIntoArray4Unwrap(s) == IF Len(s) = 4 THEN Ok(s) ELSE Panic

\* The bytes taken least significant first.
u32_from_le_bytes(a) == ((a[4] * 256 + a[3]) * 256 + a[2]) * 256 + a[1]

u32_from_be_bytes(a) == ((a[1] * 256 + a[2]) * 256 + a[3]) * 256 + a[4]

\* ------------------------------------------------ ProbeInfo (lines 20-47)
ProbeInfoValue(major, minor, variant) ==
    [major_version |-> major, minor_version |-> minor, variant |-> variant]

\* The variant read one byte too far, from bytes[3].
ProbeInfo_from_payload_byte3(bytes) ==
    IF Len(bytes) < 3
    THEN Err(InvalidPayloadLength)
    ELSE LET variant == IF Len(bytes) = 4
                        THEN WchLinkVariant_try_from_u8(bytes[4])
                        ELSE Ok(Ch549)
         IN  IF variant.tag # "Ok" THEN variant
             ELSE Ok(ProbeInfoValue(bytes[1], bytes[2], variant.value))

\* An unknown variant byte replaced by the default (unwrap_or).
ProbeInfo_from_payload_fallback(bytes) ==
    IF Len(bytes) < 3
    THEN Err(InvalidPayloadLength)
    ELSE LET variant == IF Len(bytes) = 4
                        THEN WchLinkVariant_try_from_u8(bytes[3])
                        ELSE Ok(Ch549)
         IN  Ok(ProbeInfoValue(bytes[1], bytes[2],
                               IF variant.tag = "Ok" THEN variant.value ELSE Ch549))

\* The variant parsed whenever a fourth byte is present (len >= 4).
ProbeInfo_from_payload_atleast4(bytes) ==
    IF Len(bytes) < 3
    THEN Err(InvalidPayloadLength)
    ELSE LET variant == IF Len(bytes) >= 4
                        THEN WchLinkVariant_try_from_u8(bytes[3])
                        ELSE Ok(Ch549)
         IN  IF variant.tag # "Ok" THEN variant
             ELSE Ok(ProbeInfoValue(bytes[1], bytes[2], variant.value))

\* The struct literal's fields are evaluated in source order; `?` returns the
\* error of try_from_u8, an index out of range panics.
ProbeInfo_from_payload(bytes) ==
    IF Len(bytes) < 3
    THEN Err(InvalidPayloadLength)
    ELSE LET major == Index(bytes, 0)
             minor == Index(bytes, 1)
             variant ==
                 IF Len(bytes) = 4
                 THEN LET b2 == Index(bytes, 2)
                      IN  IF b2.tag = "Panic"
                          THEN Panic
                          ELSE WchLinkVariant_try_from_u8(b2.value)
                 ELSE Ok(Ch549)
         IN  IF major.tag = "Panic" THEN Panic
             ELSE IF minor.tag = "Panic" THEN Panic
             ELSE IF variant.tag # "Ok" THEN variant
             ELSE Ok(ProbeInfoValue(major.value, minor.value, variant.value))

\* --------------------------------------- AttachChipResponse (lines 69-87)
AttachChipResponseValue(family, raw, id) ==
    [chip_family |-> family, riscvchip |-> raw, chip_id |-> id]

AttachChipResponse_decode_fields(bytes) ==
    LET b0 == Index(bytes, 0)
        family == IF b0.tag = "Panic"
                  THEN Panic
                  ELSE RiscvChip_try_from_u8(b0.value)
        raw == Index(bytes, 0)
        slice == Slice(bytes, 1, 5)
        array == IF slice.tag = "Panic"
                 THEN Panic
                 ELSE TryIntoArray4Unwrap(slice.value)
    IN  IF family.tag # "Ok" THEN family
        ELSE IF raw.tag = "Panic" THEN Panic
        ELSE IF array.tag = "Panic" THEN Panic
        ELSE Ok(AttachChipResponseValue(family.value, raw.value,
                                        u32_from_be_bytes(array.value)))

\* The length check as a minimum (len < 5), as ProbeInfo has it.
AttachChipResponse_from_payload_min(bytes) ==
    IF Len(bytes) < 5
    THEN Err(InvalidPayloadLength)
    ELSE AttachChipResponse_decode_fields(bytes)

\* The length check as a maximum only (len > 5).
AttachChipResponse_from_payload_max(bytes) ==
    IF Len(bytes) > 5
    THEN Err(InvalidPayloadLength)
    ELSE AttachChipResponse_decode_fields(bytes)

AttachChipResponse_from_payload(bytes) ==
    IF Len(bytes) # 5
    THEN Err(InvalidPayloadLength)
    ELSE AttachChipResponse_decode_fields(bytes)

\* ------------------------------------------------ Display (lines 89-103)
HexDigit(d) ==
    CASE d = 0 -> "0" [] d = 1 -> "1" [] d = 2 -> "2" [] d = 3 -> "3"
      [] d = 4 -> "4" [] d = 5 -> "5" [] d = 6 -> "6" [] d = 7 -> "7"
      [] d = 8 -> "8" [] d = 9 -> "9" [] d = 10 -> "a" [] d = 11 -> "b"
      [] d = 12 -> "c" [] d = 13 -> "d" [] d = 14 -> "e" [] d = 15 -> "f"

\* `{:x}`: the digits of n, most significant first, no leading zeros.
RECURSIVE LowerHex(_)
LowerHex(n) ==
    IF n < 16 THEN HexDigit(n) ELSE LowerHex(n \div 16) \o HexDigit(n % 16)

RECURSIVE ZeroPad(_, _)
ZeroPad(s, width) == IF Len(s) >= width THEN s ELSE ZeroPad("0" \o s, width)

\* `{:08x}`
LowerHex08(n) == ZeroPad(LowerHex(n), 8)

\* `{:x}` where the code has `{:08x}`.
AttachChipResponse_fmt_unpadded(self, found) ==
    IF self.chip_id = 0
    THEN [out |-> RiscvChip_debug(self.chip_family), lookups |-> <<>>]
    ELSE IF found.tag = "Some"
    THEN [out |-> RiscvChip_debug(self.chip_family) \o " [" \o found.value
                  \o "] (ChipID: 0x" \o LowerHex(self.chip_id) \o ")",
          lookups |-> <<found>>]
    ELSE [out |-> RiscvChip_debug(self.chip_family)
                  \o " (ChipID: 0x" \o LowerHex(self.chip_id) \o ")",
          lookups |-> <<found>>]

\* `found` is what crate::chips::chip_id_to_chip_name answers for chip_id;
\* `lookups` lists the answers of the calls made to it.
AttachChipResponse_fmt(self, found) ==
    IF self.chip_id = 0
    THEN [out |-> RiscvChip_debug(self.chip_family), lookups |-> <<>>]
    ELSE IF found.tag = "Some"
    THEN [out |-> RiscvChip_debug(self.chip_family) \o " [" \o found.value
                  \o "] (ChipID: 0x" \o LowerHex08(self.chip_id) \o ")",
          lookups |-> <<found>>]
    ELSE [out |-> RiscvChip_debug(self.chip_family)
                  \o " (ChipID: 0x" \o LowerHex08(self.chip_id) \o ")",
          lookups |-> <<found>>]

\* What the chip-name lookup may answer.
LookupResults == {None, Some("CH32V307")}

\* ------------------------------------------------------------- commands
PowerActions == {"Enable3V3", "Disable3V3", "Enable5V", "Disable5V"}

Commands ==
    {[name |-> "GetProbeInfo"], [name |-> "AttachChip"],
     [name |-> "GetChipRomRamSplit"], [name |-> "OptEnd"]}
    \cup {[name |-> "EraseCodeFlash", variant |-> v, chip |-> c] :
              v \in {"ByPinRST", "ByPowerOff"}, c \in RiscvChip}
    \cup {[name |-> "SetChipRomRamSplit", split |-> v] : v \in U8}
    \cup {[name |-> "SetPower", variant |-> v] : v \in PowerActions}

\* const COMMAND_ID of each impl Command.
COMMAND_ID(c) ==
    CASE c.name = "GetProbeInfo" -> 13
      [] c.name = "AttachChip" -> 13
      [] c.name = "EraseCodeFlash" -> 13
      [] c.name = "GetChipRomRamSplit" -> 13
      [] c.name = "SetChipRomRamSplit" -> 13
      [] c.name = "OptEnd" -> 13
      [] c.name = "SetPower" -> 13

GetProbeInfo_payload(self) == <<1>>

AttachChip_payload(self) == <<2>>

\* The power-off erase cut to the one byte the documented length field
\* (81 0d 01 0f 09) announces.
EraseCodeFlash_payload_doc_length(self) ==
    CASE self.variant = "ByPinRST" -> <<8, RiscvChip_as_u8(self.chip)>>
      [] self.variant = "ByPowerOff" -> <<15>>

EraseCodeFlash_payload(self) ==
    CASE self.variant = "ByPinRST" -> <<8, RiscvChip_as_u8(self.chip)>>
      [] self.variant = "ByPowerOff" -> <<15, RiscvChip_as_u8(self.chip)>>

GetChipRomRamSplit_payload(self) == <<4>>

\* The split reduced to the documented range 0..3.
SetChipRomRamSplit_payload_masked(self) == <<5, self.split % 4>>

SetChipRomRamSplit_payload(self) == <<5, self.split>>

OptEnd_payload(self) == <<255>>

\* Disable5V sent with the code of Enable5V.
SetPower_payload_dup(self) ==
    CASE self.variant = "Enable3V3" -> <<9>>
      [] self.variant = "Disable3V3" -> <<10>>
      [] self.variant = "Enable5V" -> <<11>>
      [] self.variant = "Disable5V" -> <<11>>

SetPower_payload(self) ==
    CASE self.variant = "Enable3V3" -> <<9>>
      [] self.variant = "Disable3V3" -> <<10>>
      [] self.variant = "Enable5V" -> <<11>>
      [] self.variant = "Disable5V" -> <<12>>

\* ------------------------------------------------------------ the state
VARIABLES
    pc,          \* "new", "sent", "received", "decoded", "shown"
    cmd,         \* the command value of this round trip
    payload,     \* payload() of cmd, once encoded
    command_id,  \* the command group the transport frames the payload with
    bytes,       \* the raw response bytes handed to from_payload
    response,    \* what from_payload returned
    shown,       \* the rendered attach result
    lookups      \* the answers of the chip-name lookups made

vars == <<pc, cmd, payload, command_id, bytes, response, shown, lookups>>

Init ==
    /\ pc = "new"
    /\ cmd \in Commands
    /\ payload = <<>>
    /\ command_id = 0
    /\ bytes = <<>>
    /\ response = Unset
    /\ shown = ""
    /\ lookups = <<>>

Encode(name, p) ==
    /\ pc = "new"
    /\ cmd.name = name
    /\ payload' = p
    /\ command_id' = COMMAND_ID(cmd)
    /\ pc' = "sent"
    /\ UNCHANGED <<cmd, bytes, response, shown, lookups>>

SendGetProbeInfo == Encode("GetProbeInfo", GetProbeInfo_payload(cmd))

SendAttachChip == Encode("AttachChip", AttachChip_payload(cmd))

SendEraseCodeFlash == Encode("EraseCodeFlash", EraseCodeFlash_payload(cmd))

SendGetChipRomRamSplit ==
    Encode("GetChipRomRamSplit", GetChipRomRamSplit_payload(cmd))

SendSetChipRomRamSplit ==
    Encode("SetChipRomRamSplit", SetChipRomRamSplit_payload(cmd))

SendOptEnd == Encode("OptEnd", OptEnd_payload(cmd))

SendSetPower == Encode("SetPower", SetPower_payload(cmd))

\* The transport returns the raw response of a command whose Response type
\* is decoded in this file.
Receive ==
    /\ pc = "sent"
    /\ cmd.name \in {"GetProbeInfo", "AttachChip"}
    /\ \E b \in Inputs : bytes' = b
    /\ pc' = "received"
    /\ UNCHANGED <<cmd, payload, command_id, response, shown, lookups>>

\* GetProbeInfo: type Response = ProbeInfo
DecodeProbeInfo ==
    /\ pc = "received"
    /\ cmd.name = "GetProbeInfo"
    /\ response' = ProbeInfo_from_payload(bytes)
    /\ pc' = "decoded"
    /\ UNCHANGED <<cmd, payload, command_id, bytes, shown, lookups>>

\* AttachChip: type Response = AttachChipResponse
DecodeAttachChipResponse ==
    /\ pc = "received"
    /\ cmd.name = "AttachChip"
    /\ response' = AttachChipResponse_from_payload(bytes)
    /\ pc' = "decoded"
    /\ UNCHANGED <<cmd, payload, command_id, bytes, shown, lookups>>

\* Logging an attach result: fmt takes &self.
DisplayAttachChipResponse ==
    /\ pc = "decoded"
    /\ cmd.name = "AttachChip"
    /\ response.tag = "Ok"
    /\ \E found \in LookupResults :
           LET r == AttachChipResponse_fmt(response.value, found)
           IN  /\ shown' = r.out
               /\ lookups' = lookups \o r.lookups
    /\ pc' = "shown"
    /\ UNCHANGED <<cmd, payload, command_id, bytes, response>>

Next ==
    \/ SendGetProbeInfo
    \/ SendAttachChip
    \/ SendEraseCodeFlash
    \/ SendGetChipRomRamSplit
    \/ SendSetChipRomRamSplit
    \/ SendOptEnd
    \/ SendSetPower
    \/ Receive
    \/ DecodeProbeInfo
    \/ DecodeAttachChipResponse
    \/ DisplayAttachChipResponse

Spec == Init /\ [][Next]_vars

\* ------------------------------------------------------------ properties
ProbeDecoded == pc = "decoded" /\ cmd.name = "GetProbeInfo"

AttachDecoded == pc \in {"decoded", "shown"} /\ cmd.name = "AttachChip"

Encoded == pc # "new"

KnownVariantCode(b) == \E n \in DOMAIN WchLinkVariantCodes : WchLinkVariantCodes[n] = b

VariantOfCode(b) ==
    [enum |-> "WchLinkVariant",
     variant |-> CHOOSE n \in DOMAIN WchLinkVariantCodes : WchLinkVariantCodes[n] = b]

KnownChipCode(b) == \E n \in DOMAIN RiscvChipCodes : RiscvChipCodes[n] = b

ChipNameOfCode(b) == CHOOSE n \in DOMAIN RiscvChipCodes : RiscvChipCodes[n] = b

ChipOfCode(b) == [enum |-> "RiscvChip", variant |-> ChipNameOfCode(b)]

BigEndian32(b1, b2, b3, b4) == b1 * 16777216 + b2 * 65536 + b3 * 256 + b4

HexChars == <<"0", "1", "2", "3", "4", "5", "6", "7",
              "8", "9", "a", "b", "c", "d", "e", "f">>

\* The two hex digits of one byte.
HexPair(b) == HexChars[(b \div 16) + 1] \o HexChars[(b % 16) + 1]

\* C1: ProbeInfo::from_payload fails with InvalidPayloadLength exactly when
\* the input has fewer than 3 bytes; 3 bytes give major = byte 0, minor =
\* byte 1 and the default variant Ch549; 4 bytes with a known variant code
\* in byte 2 give major = byte 0, minor = byte 1 and the variant of byte 2,
\* whatever byte 3 is.
C1_ProbeInfoDecode ==
    ProbeDecoded =>
        /\ (response = Err(InvalidPayloadLength)) <=> (Len(bytes) < 3)
        /\ Len(bytes) = 3 =>
               response = Ok([major_version |-> bytes[1],
                              minor_version |-> bytes[2],
                              variant |-> Ch549])
        /\ (Len(bytes) = 4 /\ KnownVariantCode(bytes[3])) =>
               response = Ok([major_version |-> bytes[1],
                              minor_version |-> bytes[2],
                              variant |-> VariantOfCode(bytes[3])])

C1_Witness ==
    /\ ProbeDecoded
    /\ bytes = <<1, 2, 2, 127>>
    /\ response = Ok([major_version |-> 1, minor_version |-> 2,
                      variant |-> [enum |-> "WchLinkVariant",
                                   variant |-> "ECh32v305"]])

\* C2: AttachChipResponse::from_payload fails with InvalidPayloadLength for
\* every input whose length is not 5, also when byte 0 is no known
\* chip-family code: the length check comes before the family is parsed.
C2_AttachLengthFirst ==
    (AttachDecoded /\ Len(bytes) # 5) => response = Err(InvalidPayloadLength)

C2_Witness ==
    /\ AttachDecoded
    /\ Len(bytes) = 6
    /\ ~KnownChipCode(bytes[1])
    /\ response = Err(InvalidPayloadLength)

\* C3: a 5-byte input [f, b1, b2, b3, b4] with f a known chip-family code
\* decodes to chip_family = the family of f, riscvchip = f and chip_id =
\* b1*2^24 + b2*2^16 + b3*2^8 + b4; [f,0,0,0,0] gives chip_id 0 and
\* [f,1,2,3,4] gives 0x01020304.
C3_AttachDecode ==
    (AttachDecoded /\ Len(bytes) = 5 /\ KnownChipCode(bytes[1])) =>
        /\ response = Ok([chip_family |-> ChipOfCode(bytes[1]),
                          riscvchip |-> bytes[1],
                          chip_id |-> BigEndian32(bytes[2], bytes[3],
                                                  bytes[4], bytes[5])])
        /\ SubSeq(bytes, 2, 5) = <<0, 0, 0, 0>> => response.value.chip_id = 0
        /\ SubSeq(bytes, 2, 5) = <<1, 2, 3, 4>> =>
               response.value.chip_id = 16909060

C3_Witness ==
    /\ AttachDecoded
    /\ bytes = <<3, 1, 2, 3, 4>>
    /\ response = Ok([chip_family |-> [enum |-> "RiscvChip", variant |-> "CH56X"],
                      riscvchip |-> 3,
                      chip_id |-> 16909060])

\* C4: EraseCodeFlash::ByPinRST(c).payload() is exactly [0x08, c as u8] and
\* EraseCodeFlash::ByPowerOff(c).payload() is exactly [0x0f, c as u8]: two
\* bytes each, differing only in the sub-command byte.
C4_ErasePayload ==
    (Encoded /\ cmd.name = "EraseCodeFlash") =>
        /\ Len(payload) = 2
        /\ payload[1] = (IF cmd.variant = "ByPinRST" THEN 8 ELSE 15)
        /\ payload[2] = RiscvChipCodes[cmd.chip.variant]

C4_Witness ==
    /\ Encoded
    /\ cmd = [name |-> "EraseCodeFlash", variant |-> "ByPowerOff",
              chip |-> [enum |-> "RiscvChip", variant |-> "CH32V003"]]
    /\ payload = <<15, 9>>

\* C5: an unknown discriminant byte that is consulted is never replaced by
\* a default: a 4-byte ProbeInfo input whose byte 2 is no known variant code
\* fails with UnknownDiscriminant(byte 2), and a 5-byte attach input whose
\* byte 0 is no known chip-family code fails with UnknownDiscriminant(byte 0).
C5_UnknownDiscriminant ==
    /\ (ProbeDecoded /\ Len(bytes) = 4 /\ ~KnownVariantCode(bytes[3])) =>
           response = Err(UnknownDiscriminant(bytes[3]))
    /\ (AttachDecoded /\ Len(bytes) = 5 /\ ~KnownChipCode(bytes[1])) =>
           response = Err(UnknownDiscriminant(bytes[1]))

C5_Witness ==
    /\ ProbeDecoded
    /\ bytes = <<1, 2, 255, 1>>
    /\ response = Err([kind |-> "UnknownDiscriminant", byte |-> 255])

\* C6: both decoders are total and never panic: whatever the bytes, the
\* result is a typed value, InvalidPayloadLength or UnknownDiscriminant.
C6_DecodeTotal ==
    (ProbeDecoded \/ AttachDecoded) =>
        \/ response.tag = "Ok"
        \/ /\ response.tag = "Err"
           /\ response.error.kind \in {"InvalidPayloadLength", "UnknownDiscriminant"}

C6_Witness ==
    /\ AttachDecoded
    /\ bytes = <<>>
    /\ response = Err(InvalidPayloadLength)

\* C7: every zero-parameter control command encodes to exactly one byte, its
\* sub-command code, and has command group 0x0d, which is not in the
\* payload: GetProbeInfo 0x01, AttachChip 0x02, OptEnd 0xff, SetPower
\* Enable3V3 0x09, Disable3V3 0x0A, Enable5V 0x0B, Disable5V 0x0C; the four
\* SetPower payloads are pairwise distinct.
C7_SubCommand ==
    CASE cmd.name = "GetProbeInfo" -> 1
      [] cmd.name = "AttachChip" -> 2
      [] cmd.name = "OptEnd" -> 255
      [] cmd.name = "SetPower" /\ cmd.variant = "Enable3V3" -> 9
      [] cmd.name = "SetPower" /\ cmd.variant = "Disable3V3" -> 10
      [] cmd.name = "SetPower" /\ cmd.variant = "Enable5V" -> 11
      [] cmd.name = "SetPower" /\ cmd.variant = "Disable5V" -> 12

C7_ZeroParameterPayloads ==
    /\ (Encoded /\ cmd.name \in {"GetProbeInfo", "AttachChip", "OptEnd", "SetPower"}) =>
           /\ payload = <<C7_SubCommand>>
           /\ command_id = 13
           /\ \A i \in 1 .. Len(payload) : payload[i] # command_id
    /\ \A a, b \in PowerActions :
           a # b => SetPower_payload([name |-> "SetPower", variant |-> a])
                    # SetPower_payload([name |-> "SetPower", variant |-> b])

C7_Witness ==
    /\ Encoded
    /\ cmd = [name |-> "SetPower", variant |-> "Disable5V"]
    /\ payload = <<12>>
    /\ command_id = 13

\* C8: GetChipRomRamSplit.payload() is exactly [0x04] and
\* SetChipRomRamSplit(v).payload() is exactly [0x05, v] for every byte v,
\* the values 4..255 included: no validation, no error.
C8_RomRamSplitPayload ==
    /\ (Encoded /\ cmd.name = "GetChipRomRamSplit") => payload = <<4>>
    /\ (Encoded /\ cmd.name = "SetChipRomRamSplit") => payload = <<5, cmd.split>>

C8_Witness ==
    /\ Encoded
    /\ cmd = [name |-> "SetChipRomRamSplit", split |-> 200]
    /\ payload = <<5, 200>>

\* C9: an attach result renders in exactly one of three forms: chip_id = 0
\* gives the chip family alone and no lookup is made; chip_id # 0 with a
\* name found gives "<family> [<name>] (ChipID: 0x<8 hex digits>)"; chip_id
\* # 0 with no name gives "<family> (ChipID: 0x<8 hex digits>)"; the attach
\* result's fields are what they were before rendering.
C9_Hex8 == HexPair(bytes[2]) \o HexPair(bytes[3]) \o HexPair(bytes[4]) \o HexPair(bytes[5])

C9_Display ==
    pc = "shown" =>
        /\ response = Ok([chip_family |-> ChipOfCode(bytes[1]),
                          riscvchip |-> bytes[1],
                          chip_id |-> BigEndian32(bytes[2], bytes[3],
                                                  bytes[4], bytes[5])])
        /\ response.value.chip_id = 0 =>
               /\ lookups = <<>>
               /\ shown = ChipNameOfCode(bytes[1])
        /\ response.value.chip_id # 0 =>
               /\ Len(lookups) = 1
               /\ lookups[1].tag = "Some" =>
                      shown = ChipNameOfCode(bytes[1]) \o " [" \o lookups[1].value
                              \o "] (ChipID: 0x" \o C9_Hex8 \o ")"
               /\ lookups[1].tag = "None" =>
                      shown = ChipNameOfCode(bytes[1])
                              \o " (ChipID: 0x" \o C9_Hex8 \o ")"

C9_Witness ==
    /\ pc = "shown"
    /\ bytes = <<1, 0, 4, 127, 255>>
    /\ lookups = <<Some("CH32V307")>>
    /\ shown = "CH32V103 [CH32V307] (ChipID: 0x00047fff)"

\* C10: ProbeInfo::from_payload only tells "exactly 4 bytes" from "any other
\* length >= 3": an input of 3 bytes or of 5 or more decodes to major = byte
\* 0, minor = byte 1 and the default variant, byte 2 is not parsed, so an
\* unknown variant code there raises no UnknownDiscriminant.
C10_ProbeInfoOtherLengths ==
    (ProbeDecoded /\ (Len(bytes) = 3 \/ Len(bytes) >= 5)) =>
        response = Ok([major_version |-> bytes[1],
                       minor_version |-> bytes[2],
                       variant |-> Ch549])

C10_Witness ==
    /\ ProbeDecoded
    /\ Len(bytes) = 6
    /\ ~KnownVariantCode(bytes[3])
    /\ response.tag = "Ok"
    /\ response.value.variant = Ch549

====
